---- MODULE Spec2Model ----
(***************************************************************************)
(* A model of zeta.js: the truncated series zeta(s) and the click handler  *)
(* calculate(), which reads the text of the "time" field, evaluates        *)
(* E = t * zeta(1 + t * 1e-6) and writes "E(t) ~ <E.toFixed(6)>" into the  *)
(* "output" element.                                                       *)
(*                                                                         *)
(* JavaScript Numbers are IEEE-754 binary64 values.  They are modelled as  *)
(* NaN, +Infinity, -Infinity, signed zero, and finite decimal              *)
(* floating-point numbers  (-1)^neg * dig * 10^exp  whose significand dig  *)
(* holds at most Precision decimal digits (binary64 holds 53 bits, about   *)
(* 15.95 decimal digits).  Every operation rounds its exact result to      *)
(* Precision digits, to nearest, ties to even, as binary64 does with bits. *)
(* The rounding error of a 999-term sum is therefore some units of         *)
(* 10^-(Precision-1), as it is some units of 2^-52 in the browser; the     *)
(* properties below read the class of a value (NaN, infinite, finite), its *)
(* sign, its integer part and the shape of its text, none of which is      *)
(* within reach of that error for the inputs of InputTexts.                *)
(***************************************************************************)
EXTENDS Integers, Sequences, FiniteSets

\* Significant decimal digits kept by every arithmetic operation.
Precision == 17

----------------------------------------------------------------------------
(* Natural numbers of any size: sequences of decimal digits, most          *)
(* significant first, without leading zeros; zero is the empty sequence.   *)

Front(d) == SubSeq(d, 1, Len(d) - 1)

Last(d) == d[Len(d)]

RECURSIVE Zeros(_)
Zeros(j) == IF j <= 0 THEN <<>> ELSE <<0>> \o Zeros(j - 1)

RECURSIVE StripLead(_)
StripLead(d) == IF d # <<>> /\ d[1] = 0 THEN StripLead(Tail(d)) ELSE d

RECURSIVE TrailingZeros(_)
TrailingZeros(d) ==
    IF d # <<>> /\ Last(d) = 0 THEN 1 + TrailingZeros(Front(d)) ELSE 0

RECURSIVE NatAddC(_, _, _)
NatAddC(a, b, c) ==
    IF a = <<>> /\ b = <<>>
    THEN IF c = 0 THEN <<>> ELSE <<c>>
    ELSE LET x == IF a = <<>> THEN 0 ELSE Last(a)
             y == IF b = <<>> THEN 0 ELSE Last(b)
             v == x + y + c
         IN  Append(NatAddC(IF a = <<>> THEN a ELSE Front(a),
                            IF b = <<>> THEN b ELSE Front(b), v \div 10),
                    v % 10)

NatAdd(a, b) == NatAddC(a, b, 0)

\* a - b for a >= b.
RECURSIVE NatSubB(_, _, _)
NatSubB(a, b, c) ==
    IF a = <<>>
    THEN <<>>
    ELSE LET y == IF b = <<>> THEN 0 ELSE Last(b)
             v == Last(a) - y - c
         IN  Append(NatSubB(Front(a), IF b = <<>> THEN b ELSE Front(b),
                            IF v < 0 THEN 1 ELSE 0),
                    IF v < 0 THEN v + 10 ELSE v)

NatSub(a, b) == StripLead(NatSubB(a, b, 0))

RECURSIVE LexLess(_, _)
LexLess(a, b) ==
    /\ a # <<>>
    /\ \/ a[1] < b[1]
       \/ a[1] = b[1] /\ LexLess(Tail(a), Tail(b))

NatLess(a, b) ==
    \/ Len(a) < Len(b)
    \/ Len(a) = Len(b) /\ LexLess(a, b)

RECURSIVE NatMulDigitC(_, _, _)
NatMulDigitC(a, m, c) ==
    IF a = <<>>
    THEN IF c = 0 THEN <<>> ELSE <<c>>
    ELSE LET v == Last(a) * m + c
         IN  Append(NatMulDigitC(Front(a), m, v \div 10), v % 10)

NatMulDigit(a, m) == IF m = 0 THEN <<>> ELSE NatMulDigitC(a, m, 0)

RECURSIVE NatMul(_, _)
NatMul(a, b) ==
    IF a = <<>> \/ b = <<>>
    THEN <<>>
    ELSE LET hi == NatMul(a, Front(b))
         IN  NatAdd(IF hi = <<>> THEN hi ELSE Append(hi, 0),
                    NatMulDigit(a, Last(b)))

RECURSIVE NatFromInt(_)
NatFromInt(j) == IF j = 0 THEN <<>> ELSE Append(NatFromInt(j \div 10), j % 10)

\* The value of a natural of at most 9 digits.
RECURSIVE NatToInt(_)
NatToInt(d) == IF d = <<>> THEN 0 ELSE NatToInt(Front(d)) * 10 + Last(d)

\* Long division of the digits num by a divisor that fits a machine
\* integer: <<quotient digits, remainder>>, starting from remainder r.
RECURSIVE DivSmall(_, _, _)
DivSmall(num, d, r) ==
    IF num = <<>>
    THEN <<<<>>, r>>
    ELSE LET v    == r * 10 + num[1]
             rest == DivSmall(Tail(num), d, v % d)
         IN  <<<<v \div d>> \o rest[1], rest[2]>>

\* Long division by a divisor of any size, the remainder a natural.
RECURSIVE DivBig(_, _, _)
DivBig(num, d, r) ==
    IF num = <<>>
    THEN <<<<>>, r>>
    ELSE LET v    == StripLead(Append(r, num[1]))
             q    == CHOOSE c \in 0..9 :
                        /\ ~NatLess(v, NatMulDigit(d, c))
                        /\ c = 9 \/ NatLess(v, NatMulDigit(d, c + 1))
             rest == DivBig(Tail(num), d, NatSub(v, NatMulDigit(d, q)))
         IN  <<<<q>> \o rest[1], rest[2]>>

\* <<quotient, remainder is zero>> of num by d, both naturals, d # 0.
NatDivMod(num, d) ==
    IF Len(d) <= 8
    THEN LET qr == DivSmall(num, NatToInt(d), 0)
         IN  <<StripLead(qr[1]), qr[2] = 0>>
    ELSE LET qr == DivBig(num, d, <<>>)
         IN  <<StripLead(qr[1]), qr[2] = <<>> >>

----------------------------------------------------------------------------
(* Number values.                                                          *)

NaN == [kind |-> "NaN", neg |-> FALSE, dig |-> <<>>, exp |-> 0]

Infinity(neg) == [kind |-> "Infinity", neg |-> neg, dig |-> <<>>, exp |-> 0]

Zero(neg) == [kind |-> "finite", neg |-> neg, dig |-> <<>>, exp |-> 0]

\* What a local holds outside the invocation that declares it.
Undefined == [kind |-> "undefined", neg |-> FALSE, dig |-> <<>>, exp |-> 0]

IsNaN(x) == x.kind = "NaN"

IsInfinite(x) == x.kind = "Infinity"

IsFinite(x) == x.kind = "finite"

IsZero(x) == x.kind = "finite" /\ x.dig = <<>>

\* The number of digits before the decimal point: 10^(p-1) <= |x| < 10^p.
Magnitude(x) == Len(x.dig) + x.exp

\* The largest binary64 value is (2 - 2^-52) * 2^1023; a result of at
\* least 2^1024 - 2^970 = 1.7976931348623158...e308 rounds to Infinity.
OverflowDigits == <<1, 7, 9, 7, 6, 9, 3, 1, 3, 4, 8, 6, 2, 3, 1, 5, 8>>

Overflows(d, e) ==
    LET p == Len(d) + e
        w == IF Len(d) > Len(OverflowDigits) THEN Len(d) ELSE Len(OverflowDigits)
    IN  \/ p > 309
        \/ /\ p = 309
           /\ ~LexLess(d \o Zeros(w - Len(d)),
                       OverflowDigits \o Zeros(w - Len(OverflowDigits)))

\* d (no leading zeros) rounded to Precision digits, to nearest, ties to
\* even; sticky says that the exact value lies strictly above d.
RoundDigits(d, sticky) ==
    IF Len(d) <= Precision
    THEN d
    ELSE LET kept == SubSeq(d, 1, Precision)
             next == d[Precision + 1]
             more == sticky \/ \E i \in (Precision + 2)..Len(d) : d[i] # 0
             up   == \/ next > 5
                     \/ next = 5 /\ (more \/ Last(kept) % 2 = 1)
         IN  IF up THEN NatAdd(kept, <<1>>) ELSE kept

\* The Number nearest to (-1)^neg * d0 * 10^e0: rounded, overflowing to
\* Infinity, underflowing to zero (the smallest binary64 is 4.9e-324; the
\* coarser rounding of subnormals is not modelled).
Normalize(neg, d0, e0, sticky) ==
    LET d1 == StripLead(d0)
        d2 == RoundDigits(d1, sticky)
        e2 == IF Len(d1) > Precision THEN e0 + Len(d1) - Precision ELSE e0
        z  == TrailingZeros(d2)
        d3 == SubSeq(d2, 1, Len(d2) - z)
        e3 == e2 + z
    IN  IF d3 = <<>> THEN Zero(neg)
        ELSE IF Overflows(d3, e3) THEN Infinity(neg)
        ELSE IF Len(d3) + e3 < -323 THEN Zero(neg)
        ELSE [kind |-> "finite", neg |-> neg, dig |-> d3, exp |-> e3]

\* The Number of a machine integer (the loop counter, a literal).
FromInt(j) ==
    IF j < 0 THEN Normalize(TRUE, NatFromInt(-j), 0, FALSE)
    ELSE Normalize(FALSE, NatFromInt(j), 0, FALSE)

\* The value of an integer x of at most 9 digits.
ToInt(x) ==
    LET v == NatToInt(x.dig \o Zeros(x.exp)) IN IF x.neg THEN -v ELSE v

\* x * y (Number::multiply).
NumMul(x, y) ==
    IF IsNaN(x) \/ IsNaN(y) THEN NaN
    ELSE IF IsInfinite(x) \/ IsInfinite(y)
    THEN IF IsZero(x) \/ IsZero(y) THEN NaN ELSE Infinity(x.neg # y.neg)
    ELSE Normalize(x.neg # y.neg, NatMul(x.dig, y.dig), x.exp + y.exp, FALSE)

\* x + y (Number::add).
NumAdd(x, y) ==
    IF IsNaN(x) \/ IsNaN(y) THEN NaN
    ELSE IF IsInfinite(x)
    THEN IF IsInfinite(y) /\ x.neg # y.neg THEN NaN ELSE x
    ELSE IF IsInfinite(y) THEN y
    ELSE IF IsZero(x) /\ IsZero(y) THEN Zero(x.neg /\ y.neg)
    ELSE IF IsZero(x) THEN y
    ELSE IF IsZero(y) THEN x
    \* an addend below a tenth of the other's last place is rounded away
    ELSE IF Magnitude(x) - Magnitude(y) > Precision + 1 THEN x
    ELSE IF Magnitude(y) - Magnitude(x) > Precision + 1 THEN y
    ELSE LET e == IF x.exp < y.exp THEN x.exp ELSE y.exp
             a == x.dig \o Zeros(x.exp - e)
             b == y.dig \o Zeros(y.exp - e)
         IN  IF x.neg = y.neg THEN Normalize(x.neg, NatAdd(a, b), e, FALSE)
             ELSE IF a = b THEN Zero(FALSE)
             ELSE IF NatLess(a, b) THEN Normalize(y.neg, NatSub(b, a), e, FALSE)
             ELSE Normalize(x.neg, NatSub(a, b), e, FALSE)

\* x / y (Number::divide): the quotient to Precision + 2 digits and a
\* sticky remainder, then rounded.
NumDiv(x, y) ==
    IF IsNaN(x) \/ IsNaN(y) THEN NaN
    ELSE IF IsInfinite(x)
    THEN IF IsInfinite(y) THEN NaN ELSE Infinity(x.neg # y.neg)
    ELSE IF IsInfinite(y) THEN Zero(x.neg # y.neg)
    ELSE IF IsZero(y)
    THEN IF IsZero(x) THEN NaN ELSE Infinity(x.neg # y.neg)
    ELSE IF IsZero(x) THEN Zero(x.neg # y.neg)
    ELSE LET j  == Precision + 2 + Len(y.dig)
             qr == NatDivMod(x.dig \o Zeros(j), y.dig)
         IN  Normalize(x.neg # y.neg, qr[1], x.exp - y.exp - j, ~qr[2])

One == FromInt(1)

\* base^j for a natural j by repeated multiplication.
RECURSIVE PowInt(_, _)
PowInt(base, j) == IF j = 0 THEN One ELSE NumMul(PowInt(base, j - 1), base)

\* Math.pow(base, exponent) (Number::exponentiate) for the bases zeta
\* passes, the integers 1 <= base < n.  The value of a finite power is
\* implementation-approximated; modelled are the integer exponents and the
\* exponents so large that every base >= 2 overflows (2^1024) or
\* underflows (2^-1075).  No other exponent is given a value.
MathPow(base, exponent) ==
    IF IsNaN(exponent) THEN NaN
    ELSE IF IsZero(exponent) THEN One
    ELSE IF IsNaN(base) THEN NaN
    ELSE IF IsInfinite(exponent)
    THEN IF base = One THEN NaN
         ELSE IF exponent.neg THEN Zero(FALSE) ELSE Infinity(FALSE)
    ELSE IF base = One THEN One
    ELSE IF Magnitude(exponent) > 4
    THEN IF exponent.neg THEN Zero(FALSE) ELSE Infinity(FALSE)
    ELSE CASE exponent.exp >= 0 ->
            IF exponent.neg
            THEN NumDiv(One, PowInt(base, -ToInt(exponent)))
            ELSE PowInt(base, ToInt(exponent))

----------------------------------------------------------------------------
(* Text: sequences of one-character strings.                               *)

DigitChars == <<"0", "1", "2", "3", "4", "5", "6", "7", "8", "9">>

IsDigit(c) == \E i \in 1..10 : DigitChars[i] = c

DigitValue(c) == (CHOOSE i \in 1..10 : DigitChars[i] = c) - 1

DigitsText(d) == [i \in 1..Len(d) |-> DigitChars[d[i] + 1]]

\* The decimal text of a natural machine integer.
IntText(j) == IF j = 0 THEN <<"0">> ELSE DigitsText(NatFromInt(j))

StartsWith(text, w) == Len(text) >= Len(w) /\ SubSeq(text, 1, Len(w)) = w

\* StrWhiteSpaceChar, as far as the input alphabet has it.
WhiteSpace == {" ", "\t", "\n"}

RECURSIVE TrimStart(_)
TrimStart(text) ==
    IF text # <<>> /\ text[1] \in WhiteSpace THEN TrimStart(Tail(text)) ELSE text

\* The length of the longest prefix of text made of decimal digits.
RECURSIVE DigitPrefixLen(_)
DigitPrefixLen(text) ==
    IF text # <<>> /\ IsDigit(text[1]) THEN 1 + DigitPrefixLen(Tail(text)) ELSE 0

\* The value of an exponent's digits; past 99999 every value overflows or
\* underflows alike, and the digits are no longer accumulated.
RECURSIVE ExponentValue(_)
ExponentValue(text) ==
    IF text = <<>> THEN 0
    ELSE LET v == ExponentValue(Front(text))
         IN  IF v > 99999 THEN v ELSE v * 10 + DigitValue(Last(text))

InfinityText == <<"I", "n", "f", "i", "n", "i", "t", "y">>

\* parseFloat(text): leading white space is skipped, the longest prefix
\* that is a StrDecimalLiteral is read and what follows it is ignored; NaN
\* when no prefix is one.
ParseFloat(text) ==
    LET trimmed   == TrimStart(text)
        signed    == trimmed # <<>> /\ trimmed[1] \in {"+", "-"}
        neg       == signed /\ trimmed[1] = "-"
        body      == IF signed THEN Tail(trimmed) ELSE trimmed
        ni        == DigitPrefixLen(body)
        afterInt  == SubSeq(body, ni + 1, Len(body))
        hasPoint  == afterInt # <<>> /\ afterInt[1] = "."
        nf        == IF hasPoint THEN DigitPrefixLen(Tail(afterInt)) ELSE 0
        afterFrac == IF hasPoint THEN SubSeq(afterInt, nf + 2, Len(afterInt))
                     ELSE afterInt
        hasE      == afterFrac # <<>> /\ afterFrac[1] \in {"e", "E"}
        afterE    == IF hasE THEN Tail(afterFrac) ELSE <<>>
        eSigned   == afterE # <<>> /\ afterE[1] \in {"+", "-"}
        eBody     == IF eSigned THEN Tail(afterE) ELSE afterE
        ne        == DigitPrefixLen(eBody)
        ev        == ExponentValue(SubSeq(eBody, 1, ne))
        expo      == IF eSigned /\ afterE[1] = "-" THEN -ev ELSE ev
        digits    == [i \in 1..(ni + nf) |->
                        DigitValue(IF i <= ni THEN body[i] ELSE afterInt[i - ni + 1])]
    IN  IF StartsWith(body, InfinityText) THEN Infinity(neg)
        ELSE IF ni + nf = 0 THEN NaN
        ELSE Normalize(neg, digits, expo - nf, FALSE)

\* Number::toString(x) for a finite x >= 10^21: the digits of x in
\* exponential notation, d[.ddd]e+N.
ExponentialText(x) ==
    LET d == DigitsText(x.dig)
    IN  <<d[1]>> \o (IF Len(d) > 1 THEN <<".">> \o Tail(d) ELSE <<>>)
        \o <<"e", "+">> \o IntText(Magnitude(x) - 1)

\* Number.prototype.toFixed throws a RangeError for fractionDigits outside
\* 0..100.
ToFixedThrows(f) == f < 0 \/ f > 100

\* The integer n for which n / 10^f - |x| is closest to zero, the larger
\* of two such, as digits.
ScaledInteger(x, f) ==
    LET sh   == x.exp + f
        keep == Len(x.dig) + sh
    IN  IF sh >= 0 THEN x.dig \o Zeros(sh)
        ELSE IF keep < 0 THEN <<>>
        ELSE IF x.dig[keep + 1] >= 5 THEN NatAdd(SubSeq(x.dig, 1, keep), <<1>>)
        ELSE SubSeq(x.dig, 1, keep)

\* x.toFixed(f) for 0 <= f <= 100.
ToFixed(x, f) ==
    IF IsNaN(x) THEN <<"N", "a", "N">>
    ELSE IF IsInfinite(x)
    THEN (IF x.neg THEN <<"-">> ELSE <<>>) \o InfinityText
    ELSE LET sign == IF x.neg /\ ~IsZero(x) THEN <<"-">> ELSE <<>>
             m    == DigitsText(ScaledInteger(x, f))
             pad  == Zeros(f + 1 - Len(m))
             all  == DigitsText(pad) \o m
         IN  IF Magnitude(x) > 21 THEN sign \o ExponentialText(x)
             ELSE IF f = 0 THEN sign \o all
             ELSE sign \o SubSeq(all, 1, Len(all) - f) \o <<".">>
                  \o SubSeq(all, Len(all) - f + 1, Len(all))

----------------------------------------------------------------------------
(* The program.                                                            *)

\* const n = 1000
n == 1000

\* toFixed(5).
FractionDigitsFive == 6 - 1

\* The argument of toFixed.
FractionDigits == 6

\* The literal 1e-6.
Micro == Normalize(FALSE, <<1>>, -6, FALSE)

\* The character U+2248 (ALMOST EQUAL TO) of the template literal.
AlmostEqual == "U+2248"

\* The template literal's text before ${...}.
Prefix == <<"E", "(", "t", ")", " ", AlmostEqual, " ">>

\* The texts the user leaves in the "time" field before a click.  Each
\* parses to NaN, to an infinity, or to a t for which 1 + t * 1e-6 is an
\* exponent MathPow gives a value to.
InputTexts ==
    { <<>>,
      <<"a", "b", "c">>,
      <<"0">>,
      <<"-", "0">>,
      <<" ", "0", ".", "0", "x">>,
      <<"1", "0", "0", "0", "0", "0", "0">>,
      <<"1", "e", "6", "p", "x">>,
      <<"-", "1", "0", "0", "0", "0", "0", "0">>,
      <<"I", "n", "f", "i", "n", "i", "t", "y">>,
      <<"-", "I", "n", "f", "i", "n", "i", "t", "y">>,
      <<"1", "e", "4", "0", "0">>,
      <<"1", "e", "2", "1">>,
      <<"-", "1", "e", "2", "1">> }

VARIABLES
    time,      \* document.getElementById("time").value
    output,    \* document.getElementById("output").innerText
    pc,        \* where the handler stands: idle, loop, done or threw
    t,         \* calculate's t
    s,         \* zeta's parameter s
    k,         \* zeta's loop counter
    sum,       \* zeta's accumulator
    E,         \* calculate's E
    zetaCalls, \* calls of zeta made by the running invocation
    terms,     \* executions of the loop body by the running call of zeta
    writes,    \* assignments to innerText by the running invocation
    replaced   \* the text that the running invocation's write replaced

vars == <<time, output, pc, t, s, k, sum, E, zetaCalls, terms, writes, replaced>>

\* zeta(1 + t), the factor 1e-6 forgotten.
ZetaArgUnscaled(tt) == NumAdd(One, tt)

\* The argument calculate passes to zeta.
ZetaArg(tt) == NumAdd(One, NumMul(tt, Micro))

\* let sum = 0
SumInit == Zero(FALSE)

\* let k = 0
KInitZero == 1 - 1

\* let k = 1
KInit == 1

\* k <= n
LoopCondInclusive(kk) == kk <= n

\* k < n && isFinite(sum): the loop left once the accumulator is not finite.
LoopCondFinite(kk) == kk < n /\ IsFinite(sum)

\* k < n
LoopCond(kk) == kk < n

\* Term over a pow that returns 1 for pow(1, NaN), as C's pow does.
TermPowOneNaN(kk, ss) ==
    IF kk = 1 /\ IsNaN(ss) THEN NumDiv(One, One)
    ELSE NumDiv(One, MathPow(FromInt(kk), ss))

\* Term over a pow that returns 1 for pow(1, +-Infinity), as C's pow does.
TermPowOneInfinity(kk, ss) ==
    IF kk = 1 /\ IsInfinite(ss) THEN NumDiv(One, One)
    ELSE NumDiv(One, MathPow(FromInt(kk), ss))

\* 1 / Math.pow(k, s)
Term(kk, ss) == NumDiv(One, MathPow(FromInt(kk), ss))

\* t + realZeta.
EnergySum(tt, realZeta) == NumAdd(tt, realZeta)

\* const E = t * realZeta
Energy(tt, realZeta) == NumMul(tt, realZeta)

\* `E(t) ~ ${E.toFixed(6)}`
OutputText(e) == Prefix \o ToFixed(e, FractionDigits)

\* innerText += text.
WrittenAppended(old, text) == old \o text

\* What the assignment to innerText leaves in the element.
Written(old, text) == text

\* The field cleared once read.
FieldAfterReadCleared(text) == <<>>

\* What reading .value leaves in the field.
FieldAfterRead(text) == text

Init ==
    /\ time = <<>>
    /\ output = <<>>
    /\ pc = "idle"
    /\ t = Undefined
    /\ s = Undefined
    /\ k = 0
    /\ sum = Undefined
    /\ E = Undefined
    /\ zetaCalls = 0
    /\ terms = 0
    /\ writes = 0
    /\ replaced = <<>>

\* The user edits the field; the handler is not running (one thread).
Edit(text) ==
    /\ pc = "idle"
    /\ time' = text
    /\ UNCHANGED <<output, pc, t, s, k, sum, E, zetaCalls, terms, writes, replaced>>

\* calculate() is invoked: t is parsed, zeta is called and binds s, n, sum, k.
CalcBegin ==
    /\ pc = "idle"
    /\ t' = ParseFloat(time)
    /\ time' = FieldAfterRead(time)
    /\ s' = ZetaArg(t')
    /\ sum' = SumInit
    /\ k' = KInit
    /\ zetaCalls' = 1
    /\ terms' = 0
    /\ writes' = 0
    /\ pc' = "loop"
    /\ UNCHANGED <<output, E, replaced>>

\* One pass of the loop body, and k++.
ZetaIter ==
    /\ pc = "loop"
    /\ LoopCond(k)
    /\ sum' = NumAdd(sum, Term(k, s))
    /\ k' = k + 1
    /\ terms' = terms + 1
    /\ UNCHANGED <<time, output, pc, t, s, E, zetaCalls, writes, replaced>>

\* The loop ends, zeta returns sum; E is computed, formatted and written.
ZetaReturn ==
    /\ pc = "loop"
    /\ ~LoopCond(k)
    /\ E' = Energy(t, sum)
    /\ IF ToFixedThrows(FractionDigits)
       THEN /\ pc' = "threw"
            /\ UNCHANGED <<output, writes, replaced>>
       ELSE /\ pc' = "done"
            /\ output' = Written(output, OutputText(E'))
            /\ writes' = writes + 1
            /\ replaced' = output
    /\ UNCHANGED <<time, t, s, k, sum, zetaCalls, terms>>

\* calculate returns (or the exception leaves it): its locals are gone.
CalcReturn ==
    /\ pc \in {"done", "threw"}
    /\ pc' = "idle"
    /\ t' = Undefined
    /\ s' = Undefined
    /\ k' = 0
    /\ sum' = Undefined
    /\ E' = Undefined
    /\ zetaCalls' = 0
    /\ terms' = 0
    /\ writes' = 0
    /\ replaced' = <<>>
    /\ UNCHANGED <<time, output>>

Next ==
    \/ \E text \in InputTexts : Edit(text)
    \/ CalcBegin
    \/ ZetaIter
    \/ ZetaReturn
    \/ CalcReturn

Spec == Init /\ [][Next]_vars

----------------------------------------------------------------------------
(* Properties.                                                             *)

\* The left fold ((acc + 1/lo^s) + 1/(lo+1)^s) + ... + 1/hi^s, in increasing
\* k.  The range is halved, and the left half's value is inspected before
\* it is passed on, only to keep the evaluation shallow.
RECURSIVE FoldTerms(_, _, _, _)
FoldTerms(acc, lo, hi, ss) ==
    IF lo > hi THEN acc
    ELSE IF lo = hi THEN NumAdd(acc, NumDiv(One, MathPow(FromInt(lo), ss)))
    ELSE LET mid  == (lo + hi) \div 2
             left == FoldTerms(acc, lo, mid, ss)
         IN  IF left.kind \in {"NaN", "Infinity", "finite"}
             THEN FoldTerms(left, mid + 1, hi, ss)
             ELSE left

\* 0 + 1/1^s + 1/2^s + ... + 1/j^s.
SumTo(j, ss) == FoldTerms(Zero(FALSE), 1, j, ss)

\* The digits of floor(|x| * 10^j) of a finite x.
Truncated(x, j) ==
    LET sh   == x.exp + j
        keep == Len(x.dig) + sh
    IN  IF sh >= 0 THEN x.dig \o Zeros(sh)
        ELSE IF keep <= 0 THEN <<>>
        ELSE SubSeq(x.dig, 1, keep)

NaNText == <<"N", "a", "N">>

ContainsNaN(text) ==
    \E i \in 1..(Len(text) - 2) : SubSeq(text, i, i + 2) = NaNText

\* text holds one decimal point, and exactly six characters follow it, all
\* of them digits.
SixDecimals(text) ==
    /\ Cardinality({i \in 1..Len(text) : text[i] = "."}) = 1
    /\ \E p \in 1..Len(text) :
          /\ text[p] = "."
          /\ Len(text) - p = 6
          /\ \A i \in (p + 1)..Len(text) : IsDigit(text[i])

Million == FromInt(1000000)

\* C1: zeta(s) returns the left fold of 1/k^s over exactly k = 1, ..., 999,
\* from an accumulator of 0: the loop starts at k = 1 with sum = 0, has
\* added k - 1 terms whenever it stands at k, and returns at k = 1000 with
\* the 999-term fold.
C1_ZetaSum ==
    /\ pc = "loop" => /\ 1 <= k /\ k <= 1000 /\ terms = k - 1
                      /\ k = 1 => sum = Zero(FALSE)
    /\ pc = "done" => /\ k = 1000 /\ terms = 999
                      /\ sum = SumTo(999, s)

C1_Witness ==
    pc = "done" /\ s = FromInt(2) /\ terms = 999 /\ IsFinite(sum) /\ ~IsZero(sum)

\* C2 as claimed: for t = 1000000, s = 2 and the integer part of E is
\* 1643934.
C2_Original ==
    pc = "done" /\ t = Million =>
        s = FromInt(2) /\ Truncated(E, 0) = <<1, 6, 4, 3, 9, 3, 4>>

\* C2, amended: for every input that parses to a number, calculate calls
\* zeta once with s = 1 + t * 1e-6, computes E = t * zeta(s) and writes
\* "E(t) ~ " followed by E.toFixed(6); for t = 1000000, s = 2 and the
\* integer part of E is 1643933 (E = 1643933.566...).
C2_Calculate ==
    pc = "done" /\ ~IsNaN(t) =>
        /\ t = ParseFloat(time)
        /\ zetaCalls = 1
        /\ s = NumAdd(FromInt(1), NumMul(t, Normalize(FALSE, <<1>>, -6, FALSE)))
        /\ E = NumMul(t, sum)
        /\ output = <<"E", "(", "t", ")", " ", AlmostEqual, " ">> \o ToFixed(E, 6)
        /\ t = Million =>
              /\ s = FromInt(2)
              /\ Truncated(E, 0) = <<1, 6, 4, 3, 9, 3, 3>>
              /\ StartsWith(output, <<"E", "(", "t", ")", " ", AlmostEqual, " ",
                                      "1", "6", "4", "3", "9", "3", "3", ".">>)

C2_Witness ==
    pc = "done" /\ t = Million /\ zetaCalls = 1 /\ SixDecimals(output)

\* C3 as claimed: the text written always has exactly 6 digits after the
\* decimal point.
C3_Original == pc = "done" => SixDecimals(output)

\* C3, amended: when E is finite and |E| < 10^21 the text written has
\* exactly 6 digits after the decimal point; for a NaN or infinite E it is
\* NaN, Infinity or -Infinity, and for |E| >= 10^21 it is E in exponential
\* notation, none of which ends in a six-digit fraction.
C3_SixDecimals ==
    pc = "done" =>
        /\ IsFinite(E) /\ Magnitude(E) <= 21 => SixDecimals(output)
        /\ IsNaN(E) => output = Prefix \o NaNText
        /\ IsInfinite(E) =>
              output = Prefix \o (IF E.neg THEN <<"-">> ELSE <<>>) \o InfinityText
        /\ IsFinite(E) /\ Magnitude(E) > 21 =>
              /\ ~SixDecimals(output)
              /\ \E i \in 1..Len(output) : output[i] = "e"

C3_Witness ==
    /\ pc = "done" /\ IsFinite(E) /\ E.neg /\ Magnitude(E) = 9
    /\ SixDecimals(output)

\* C4: when the field's text does not parse, no error is raised; t, s,
\* every term, the sum and E are NaN and the text written is "E(t) ~ NaN".
C4_NaNPropagates ==
    pc # "idle" /\ IsNaN(ParseFloat(time)) =>
        /\ pc # "threw"
        /\ IsNaN(t) /\ IsNaN(s)
        /\ pc = "loop" /\ k < 1000 => IsNaN(NumDiv(One, MathPow(FromInt(k), s)))
        /\ terms >= 1 => IsNaN(sum)
        /\ pc = "done" =>
              /\ IsNaN(E)
              /\ output = <<"E", "(", "t", ")", " ", AlmostEqual, " ", "N", "a", "N">>

C4_Witness ==
    pc = "done" /\ time = <<>> /\ IsNaN(t) /\ ContainsNaN(output)

\* C5 as claimed: whenever the input parses to a number (parseFloat does
\* not return NaN), the text written does not contain NaN.
C5_Original == pc = "done" /\ ~IsNaN(t) => ~ContainsNaN(output)

\* C5, amended: the text written contains NaN exactly when the input does
\* not parse to a finite number: when it does not parse, or parses to
\* +Infinity or -Infinity (Math.pow(1, s) is NaN for an infinite s).
C5_NaNOnlyIfNotFinite ==
    pc = "done" => (ContainsNaN(output) <=> ~IsFinite(ParseFloat(time)))

C5_Witness ==
    pc = "done" /\ IsFinite(t) /\ t.neg /\ IsInfinite(E) /\ ~ContainsNaN(output)

\* C6: for t = 0, s = 1, the 999-term sum is finite and within 0.001 of
\* 7.485, E = 0 and the text written shows 0.000000.
C6_ZeroInput ==
    pc = "done" /\ IsZero(t) =>
        /\ s = FromInt(1)
        /\ IsFinite(sum)
        /\ ~sum.neg
        /\ Truncated(sum, 3) \in {<<7, 4, 8, 4>>, <<7, 4, 8, 5>>}
        /\ IsZero(E)
        /\ output = Prefix \o <<"0", ".", "0", "0", "0", "0", "0", "0">>

C6_Witness ==
    pc = "done" /\ time = <<"0">> /\ IsZero(E) /\ terms = 999

\* The text calculate writes, as a function of the field's text alone.
CalculateOf(text) ==
    LET tt == ParseFloat(text)
        ss == NumAdd(FromInt(1), NumMul(tt, Normalize(FALSE, <<1>>, -6, FALSE)))
    IN  <<"E", "(", "t", ")", " ", AlmostEqual, " ">>
        \o ToFixed(NumMul(tt, SumTo(999, ss)), 6)

\* C7: after any sequence of invocations, the text an invocation writes is
\* a function of the field's text at that invocation alone.
C7_HistoryIndependent == pc = "done" => output = CalculateOf(time)

C7_Witness ==
    pc = "done" /\ replaced # <<>> /\ replaced # output /\ time = <<"0">>

\* C8 as claimed: the sum is accumulated over 1000 terms.
C8_Original == pc = "done" => terms = 1000

\* C8, amended: the sum is accumulated over a fixed number of terms, 999
\* (k = 1, ..., 999; n = 1000 is the bound the loop stops at), on every
\* invocation of zeta.
C8_Terms ==
    /\ pc = "loop" => terms < 1000
    /\ pc = "done" => terms = 999 /\ terms = n - 1 /\ k = n

C8_Witness == pc = "done" /\ terms = 999 /\ replaced # <<>>

\* C9: every invocation runs to completion without raising an error,
\* whatever the input.  No step raises; while the loop runs, 1000 - k is a
\* natural number that every pass decreases, so the loop is left after a
\* bounded number of passes, and it is left for the write only; the loop
\* body has then run 999 times, for every s and every value of the
\* accumulator, the output has been written exactly once, and the next
\* step is calculate's return.
C9_Terminates ==
    /\ [](pc # "threw")
    /\ [](pc = "loop" => 1 <= k /\ k <= 1000 /\ writes = 0)
    /\ [][pc = "loop" /\ pc' = "loop" => 1000 - k' < 1000 - k]_vars
    /\ [][pc = "loop" /\ pc' # "loop" => pc' = "done" /\ writes' = 1]_vars
    /\ [](pc = "done" => terms = 999 /\ writes = 1)
    /\ [][pc = "done" => pc' = "idle"]_vars

C9_Witness ==
    pc = "done" /\ IsInfinite(s) /\ IsNaN(sum) /\ terms = 999 /\ writes = 1

\* C10: an invocation changes nothing but the text of the output element:
\* the field changes only by the user's edit between invocations, the
\* output changes only by calculate's write, the passes of zeta's loop
\* change only zeta's own k and sum, and the locals are gone on return.
C10_Frame ==
    [][ /\ time' # time => pc = "idle" /\ pc' = "idle"
        /\ output' # output => pc = "loop" /\ pc' = "done"
        /\ pc = "loop" /\ pc' = "loop" => UNCHANGED <<time, output, t, s, E>>
        /\ pc' = "idle" =>
              /\ t' = Undefined /\ s' = Undefined /\ sum' = Undefined
              /\ E' = Undefined /\ k' = 0 ]_vars

C10_Witness ==
    pc = "done" /\ time = <<"1", "e", "2", "1">> /\ output # replaced /\ writes = 1

====
